---- MODULE Spec2Model ----
(***************************************************************************)
(* A model of the crisco URL shortener (src/src/lib.rs, src/src/main.rs).  *)
(* Strings are sequences of bytes (naturals below 256), so that hashing,   *)
(* Base62 rendering, Base64 decoding and substring scans are computed as   *)
(* the code computes them.  A u64 is a sequence of four 16-bit limbs,      *)
(* least significant first.                                                *)
(***************************************************************************)
EXTENDS Integers, Sequences, FiniteSets, TLC

VARIABLES
  store,       \* the Store: short code -> URL
  basic_auth,  \* the value of the environment variable BASIC_AUTH
  op,          \* what ran last: "none", a handler ("get", "post", "err") or a function
  stream,      \* the connection the last request was parsed from, if any
  req,         \* the request the last handler was given
  failure,     \* the parse error the last handler was given
  resp,        \* the response the last handler wrote
  pre,         \* the Store as it was when the last handler was entered
  calls,       \* the number of shorten_url calls the last handler made
  issued,      \* the <<url, code>> pairs answered 200 by handle_post so far
  written,     \* the responses the last handler wrote to its connection, in order
  result       \* the value the function called last on its own returned

vars == <<store, basic_auth, op, stream, req, failure, resp, pre, calls, issued, written, result>>

(***************************************************************************)
(* Bytes and string literals                                               *)
(***************************************************************************)

\* The printable ASCII characters in code order, in two runs: bytes 32 to 95
\* and bytes 97 to 126 (byte 96 never occurs in a literal of this model).
PrintableLow ==
  <<" ", "!", "\"", "#", "$", "%", "&", "'", "(", ")", "*", "+", ",", "-", ".", "/",
    "0", "1", "2", "3", "4", "5", "6", "7", "8", "9", ":", ";", "<", "=", ">", "?",
    "@", "A", "B", "C", "D", "E", "F", "G", "H", "I", "J", "K", "L", "M", "N", "O",
    "P", "Q", "R", "S", "T", "U", "V", "W", "X", "Y", "Z", "[", "\\", "]", "^", "_">>

PrintableHigh ==
  <<"a", "b", "c", "d", "e", "f", "g", "h", "i", "j", "k", "l", "m", "n", "o",
    "p", "q", "r", "s", "t", "u", "v", "w", "x", "y", "z", "{", "|", "}", "~">>

Ord(c) ==
  IF \E i \in 1..Len(PrintableLow) : PrintableLow[i] = c
  THEN 31 + (CHOOSE i \in 1..Len(PrintableLow) : PrintableLow[i] = c)
  ELSE 96 + (CHOOSE i \in 1..Len(PrintableHigh) : PrintableHigh[i] = c)

\* The bytes of a literal written as a sequence of one-character strings.
Str(cs) == [i \in 1..Len(cs) |-> Ord(cs[i])]

\* Option<T>: None, or Some(v).
None == [some |-> FALSE, val |-> <<>>]
Some(v) == [some |-> TRUE, val |-> v]

CR == 13
LF == 10
CRLF == <<CR, LF>>

Min(S) == CHOOSE x \in S : \A y \in S : x <= y

StartsWith(s, p) == Len(s) >= Len(p) /\ SubSeq(s, 1, Len(p)) = p

MinOr0(S) == IF S = {} THEN 0 ELSE Min(S)

\* str::find: the 1-based index of the first occurrence of p in s, 0 if none.
Find(s, p) ==
  MinOr0({i \in 1..(Len(s) - Len(p) + 1) : SubSeq(s, i, i + Len(p) - 1) = p})

\* Everything of s from 1-based index i on.
From(s, i) == SubSeq(s, i, Len(s))

ToLower(b) == IF b >= 65 /\ b <= 90 THEN b + 32 ELSE b
ToUpper(b) == IF b >= 97 /\ b <= 122 THEN b - 32 ELSE b

eq_ignore_ascii_case(a, b) ==
  Len(a) = Len(b) /\ \A i \in 1..Len(a) : ToLower(a[i]) = ToLower(b[i])

to_ascii_uppercase(s) == [i \in 1..Len(s) |-> ToUpper(s[i])]

\* char::is_whitespace restricted to ASCII: tab, LF, VT, FF, CR, space.
IsWhitespace(b) == b \in {9, 10, 11, 12, 13, 32}

Max(S) == CHOOSE x \in S : \A y \in S : x >= y

\* The greatest of the positions 1..n in keep: none after it is in keep.
Last(keep, n) == CHOOSE j \in keep : \A i \in (j + 1)..n : i \notin keep

\* s cut down to the span of the positions in keep.
Span(s, keep) == IF keep = {} THEN <<>> ELSE SubSeq(s, Min(keep), Last(keep, Len(s)))

\* s from the first position in keep on.
Suffix(s, keep) == IF keep = {} THEN <<>> ELSE From(s, Min(keep))

trim_start(s) == Suffix(s, {i \in 1..Len(s) : ~IsWhitespace(s[i])})

trim(s) == Span(s, {i \in 1..Len(s) : ~IsWhitespace(s[i])})

\* format!("{}", n) for a usize: decimal digits, most significant first.
RECURSIVE ToDecimal(_)
ToDecimal(n) ==
  IF n < 10 THEN <<48 + n>> ELSE Append(ToDecimal(n \div 10), 48 + (n % 10))

(***************************************************************************)
(* Constants of lib.rs                                                     *)
(***************************************************************************)

BASE62 ==
  Str(<<"0", "1", "2", "3", "4", "5", "6", "7", "8", "9",
        "a", "b", "c", "d", "e", "f", "g", "h", "i", "j", "k", "l", "m",
        "n", "o", "p", "q", "r", "s", "t", "u", "v", "w", "x", "y", "z",
        "A", "B", "C", "D", "E", "F", "G", "H", "I", "J", "K", "L", "M",
        "N", "O", "P", "Q", "R", "S", "T", "U", "V", "W", "X", "Y", "Z">>)

BASE64 ==
  Str(<<"A", "B", "C", "D", "E", "F", "G", "H", "I", "J", "K", "L", "M",
        "N", "O", "P", "Q", "R", "S", "T", "U", "V", "W", "X", "Y", "Z",
        "a", "b", "c", "d", "e", "f", "g", "h", "i", "j", "k", "l", "m",
        "n", "o", "p", "q", "r", "s", "t", "u", "v", "w", "x", "y", "z",
        "0", "1", "2", "3", "4", "5", "6", "7", "8", "9", "+", "/">>)

MAX_BODY == 102400
MAX_HEADER == 8192

\* The last attempt number of the collision loop of handle_post.
MaxAttempt == 10

Contains(alphabet, b) == \E i \in 1..Len(alphabet) : alphabet[i] = b

(***************************************************************************)
(* Hash-to-code encoder: djb2, 48-bit mask, Base62                         *)
(***************************************************************************)

LimbBase == 65536

\* Bit k of a ^ b.
XorBit(a, b, k) == (((a \div (2 ^ k)) % 2) + ((b \div (2 ^ k)) % 2)) % 2

\* limb ^ byte for a 16-bit limb and a byte: bits 8 to 15 are the limb's.
Xor(limb, byte) ==
  (limb \div 256) * 256
  + XorBit(limb, byte, 0) + 2 * XorBit(limb, byte, 1)
  + 4 * XorBit(limb, byte, 2) + 8 * XorBit(limb, byte, 3)
  + 16 * XorBit(limb, byte, 4) + 32 * XorBit(limb, byte, 5)
  + 64 * XorBit(limb, byte, 6) + 128 * XorBit(limb, byte, 7)

\* hash << 5 on a u64: bits shifted out of the top limb are lost.
Shl5(h) ==
  LET c0 == (h[1] * 32) \div LimbBase
      c1 == (h[2] * 32 + c0) \div LimbBase
      c2 == (h[3] * 32 + c1) \div LimbBase
  IN  << (h[1] * 32) % LimbBase,
         (h[2] * 32 + c0) % LimbBase,
         (h[3] * 32 + c1) % LimbBase,
         (h[4] * 32 + c2) % LimbBase >>

\* u64::wrapping_add: the carry out of the top limb is dropped.
wrapping_add(a, b) ==
  LET c0 == (a[1] + b[1]) \div LimbBase
      c1 == (a[2] + b[2] + c0) \div LimbBase
      c2 == (a[3] + b[3] + c1) \div LimbBase
  IN  << (a[1] + b[1]) % LimbBase,
         (a[2] + b[2] + c0) % LimbBase,
         (a[3] + b[3] + c1) % LimbBase,
         (a[4] + b[4] + c2) % LimbBase >>

\* t ^ u64::from(byte): only the low limb changes.
XorByte(t, byte) == <<Xor(t[1], byte), t[2], t[3], t[4]>>

U64 == [1..4 -> 0..(LimbBase - 1)]

\* One round of the loop of djb2:
\* hash = (hash << 5).wrapping_add(hash) ^ u64::from(byte)
Djb2Round[hash \in U64, byte \in 0..255] ==
  XorByte(wrapping_add(Shl5(hash), hash), byte)

\* The loop of djb2 run over the bytes of s in order.
RECURSIVE djb2(_)
djb2(s) ==
  IF s = <<>> THEN <<5381, 0, 0, 0>>
  ELSE Djb2Round[djb2(SubSeq(s, 1, Len(s) - 1)), s[Len(s)]]

\* h & 0x0000_FFFF_FFFF_FFFF
Low48(h) == <<h[1], h[2], h[3], 0>>

get_hash_prefix(url) == Low48(djb2(url))

IsZero(n) == n = <<0, 0, 0, 0>>

\* n / 62 and n % 62 by long division from the top limb down.
DivMod62(n) ==
  LET r4 == n[4] % 62
      a3 == r4 * LimbBase + n[3]
      r3 == a3 % 62
      a2 == r3 * LimbBase + n[2]
      r2 == a2 % 62
      a1 == r2 * LimbBase + n[1]
  IN  [quot |-> <<a1 \div 62, a2 \div 62, a3 \div 62, n[4] \div 62>>,
       rem  |-> a1 % 62]

\* The loop of to_base62 followed by buf.reverse(): most significant first.
RECURSIVE Base62Digits(_)
Base62Digits(n) ==
  IF IsZero(n) THEN <<>>
  ELSE Append(Base62Digits(DivMod62(n).quot), BASE62[DivMod62(n).rem + 1])

to_base62(n) == IF IsZero(n) THEN Str(<<"0">>) ELSE Base62Digits(n)

Salted(url, attempt) ==
  IF attempt = 0 THEN url ELSE url \o Str(<<":">>) \o ToDecimal(attempt)

\* A faulty cut: the last 7 digits are kept.
Last7(base62_str) ==
  IF Len(base62_str) >= 7
  THEN SubSeq(base62_str, Len(base62_str) - 6, Len(base62_str))
  ELSE base62_str

\* base62_str.get(..7).map_or_else(|| base62_str.clone(), ToString::to_string)
First7(base62_str) ==
  IF Len(base62_str) >= 7 THEN SubSeq(base62_str, 1, 7) ELSE base62_str

shorten_url(url, attempt) ==
  First7(to_base62(get_hash_prefix(Salted(url, attempt))))

(***************************************************************************)
(* Responses                                                               *)
(***************************************************************************)

TextPlain == Str(<<"t", "e", "x", "t", "/", "p", "l", "a", "i", "n">>)
Close == Str(<<"c", "l", "o", "s", "e">>)
Zero == Str(<<"0">>)
Basic == Str(<<"B", "a", "s", "i", "c">>)
Slash == Str(<<"/">>)

RootMsg ==
  Str(<<"T", "r", "y", " ", "P", "O", "S", "T", " ", "w", "i", "t",
      "h", " ", "{", "\"", "u", "r", "l", "\"", ":", " ", "\"", "h",
      "t", "t", "p", "s", ":", "/", "/", ".", ".", ".", "\"", "}">>)

BadUrlMsg ==
  Str(<<"M", "i", "s", "s", "i", "n", "g", " ", "o", "r", " ", "i",
      "n", "v", "a", "l", "i", "d", " ", "U", "R", "L", " ", "i",
      "n", " ", "r", "e", "q", "u", "e", "s", "t", " ", "b", "o",
      "d", "y">>)

\* A response as written to the stream: status line, headers in order, body.
Response(status, headers, body) ==
  [status |-> status, headers |-> headers, body |-> body]

HasHeader(r, name) == \E i \in 1..Len(r.headers) : r.headers[i][1] = name

Header(r, name) ==
  r.headers[CHOOSE i \in 1..Len(r.headers) : r.headers[i][1] = name][2]

handle_root ==
  Response(200,
           << <<"Content-Type", TextPlain>>,
              <<"Content-Length", ToDecimal(Len(RootMsg))>>,
              <<"Connection", Close>> >>,
           RootMsg)

redirect_to_root ==
  Response(303,
           << <<"Location", Slash>>,
              <<"Content-Length", Zero>>,
              <<"Connection", Close>> >>,
           <<>>)

(***************************************************************************)
(* Credential gate                                                         *)
(***************************************************************************)

IndexOf(alphabet, b) == CHOOSE i \in 1..Len(alphabet) : alphabet[i] = b

\* The loop of base64_decode from input position i on.  st is
\* [output, buf, bits].  buf stays below 2^14, so the u32 arithmetic never
\* wraps.
RECURSIVE Base64Loop(_, _, _)
Base64Loop(input, i, st) ==
  IF i > Len(input) THEN Some(st.output)
  ELSE IF input[i] = 61 THEN Some(st.output)
  ELSE IF ~Contains(BASE64, input[i]) THEN None
  ELSE LET buf  == st.buf * 64 + (IndexOf(BASE64, input[i]) - 1)
           bits == st.bits + 6
       IN  IF bits >= 8
           THEN Base64Loop(input, i + 1,
                  [output |-> Append(st.output, (buf \div (2 ^ (bits - 8))) % 256),
                   buf    |-> buf % (2 ^ (bits - 8)),
                   bits   |-> bits - 8])
           ELSE Base64Loop(input, i + 1,
                  [output |-> st.output, buf |-> buf, bits |-> bits])

base64_decode(input) ==
  Base64Loop(input, 1, [output |-> <<>>, buf |-> 0, bits |-> 0])

IsCont(s, i) == i <= Len(s) /\ s[i] >= 128 /\ s[i] <= 191

\* The length of the UTF-8 sequence that lead byte b starts, 0 if b starts none.
Utf8Width(b) ==
  IF b < 128 THEN 1
  ELSE IF b >= 194 /\ b <= 223 THEN 2
  ELSE IF b >= 224 /\ b <= 239 THEN 3
  ELSE IF b >= 240 /\ b <= 244 THEN 4
  ELSE 0

\* A well-formed sequence of w bytes starts at position i of s, and the byte
\* after it is no continuation byte.
Utf8SeqAt(s, i, w) ==
  /\ w > 0
  /\ \A j \in (i + 1)..(i + w - 1) : IsCont(s, j)
  /\ (s[i] = 224 => s[i + 1] >= 160)
  /\ (s[i] = 237 => s[i + 1] <= 159)
  /\ (s[i] = 240 => s[i + 1] >= 144)
  /\ (s[i] = 244 => s[i + 1] <= 143)
  /\ ~IsCont(s, i + w)

\* std::str::from_utf8 succeeds: s does not start with a continuation byte,
\* and every other byte starts a well-formed sequence that reaches up to
\* the next such byte.
Utf8Valid(s) ==
  /\ ~IsCont(s, 1)
  /\ \A i \in 1..Len(s) : IsCont(s, i) \/ Utf8SeqAt(s, i, Utf8Width(s[i]))

AuthorizationName == Str(<<"A", "u", "t", "h", "o", "r", "i", "z", "a", "t", "i", "o", "n">>)
BasicPrefix == Str(<<"B", "a", "s", "i", "c", " ">>)

HeaderValueAt(headers, i, dflt) == IF i = 0 THEN dflt ELSE headers[i][2]

\* headers.iter().find(|(k, _)| k.eq_ignore_ascii_case(name)).map_or(dflt, v)
FindHeader(headers, name, dflt) ==
  HeaderValueAt(headers,
                MinOr0({i \in 1..Len(headers) : eq_ignore_ascii_case(headers[i][1], name)}),
                dflt)

\* Option::unwrap_or_default on an Option<Vec<u8>>
unwrap_or_default(opt) == IF opt.some THEN opt.val ELSE <<>>

\* std::str::from_utf8(bytes).unwrap_or_default()
Utf8OrDefault(decoded_bytes) ==
  IF Utf8Valid(decoded_bytes) THEN decoded_bytes ELSE <<>>

\* A faulty comparison: the test for an empty decoded text is missing.
DecodedMatchesEmpty(decoded, expected) == decoded = expected

\* The last two statements of check_basic_auth.
DecodedMatches(decoded, expected) ==
  IF decoded = <<>> THEN FALSE ELSE decoded = expected

\* A faulty prefix test: the scheme name is compared without regard to case.
CheckAuthValueAnyCase(auth, expected) ==
  IF ~(Len(auth) >= 6 /\ eq_ignore_ascii_case(SubSeq(auth, 1, 6), BasicPrefix)) THEN FALSE
  ELSE DecodedMatches(Utf8OrDefault(unwrap_or_default(base64_decode(From(auth, 7)))),
                      expected)

\* check_basic_auth from the prefix test on, auth being the header's value.
CheckAuthValue(auth, expected) ==
  IF ~StartsWith(auth, BasicPrefix) THEN FALSE
  ELSE DecodedMatches(Utf8OrDefault(unwrap_or_default(base64_decode(From(auth, 7)))),
                      expected)

check_basic_auth(headers, expected) ==
  CheckAuthValue(FindHeader(headers, AuthorizationName, <<>>), expected)

(***************************************************************************)
(* URL extraction                                                          *)
(***************************************************************************)

UrlKey == Str(<<"\"", "u", "r", "l", "\"", ":">>)
Quote == 34
HttpScheme == Str(<<"h", "t", "t", "p", ":", "/", "/">>)
HttpsScheme == Str(<<"h", "t", "t", "p", "s", ":", "/", "/">>)

\* The scheme test of extract_url on the text between the quotes.
ExtractScheme(url) ==
  IF ~StartsWith(url, HttpScheme) /\ ~StartsWith(url, HttpsScheme)
  THEN None
  ELSE Some(url)

\* A faulty slice: the closing quote is taken as part of the URL.
ExtractValueInclusive(remainder, end) ==
  IF end = 0 THEN None ELSE ExtractScheme(SubSeq(remainder, 2, end + 1))

\* extract_url once remainder starts with a quote; end is the result of
\* remainder[1..].find('"'), 0 for None.
ExtractValue(remainder, end) ==
  IF end = 0 THEN None ELSE ExtractScheme(SubSeq(remainder, 2, end))

\* A faulty extract_url: a value without quotes is taken up to the closing
\* brace.
ExtractUnquoted(remainder) ==
  IF ~StartsWith(remainder, <<Quote>>)
  THEN ExtractScheme(SubSeq(remainder, 1, Find(remainder, <<125>>) - 1))
  ELSE ExtractValue(remainder, Find(Tail(remainder), <<Quote>>))

\* extract_url from the opening quote test on.
ExtractQuoted(remainder) ==
  IF ~StartsWith(remainder, <<Quote>>) THEN None
  ELSE ExtractValue(remainder, Find(Tail(remainder), <<Quote>>))

\* extract_url once the key was searched; at is the result of body.find(key),
\* 0 for None.
ExtractAfterKey(body, at) ==
  IF at = 0 THEN None
  ELSE ExtractQuoted(trim_start(From(body, at + Len(UrlKey))))

extract_url(body) == ExtractAfterKey(body, Find(body, UrlKey))

(***************************************************************************)
(* Parse errors                                                            *)
(***************************************************************************)

ConnectionClosedMsg ==
  Str(<<"C", "o", "n", "n", "e", "c", "t", "i", "o", "n", " ", "c",
      "l", "o", "s", "e", "d", " ", "b", "y", " ", "c", "l", "i",
      "e", "n", "t">>)
InvalidMethodMsg ==
  Str(<<"I", "n", "v", "a", "l", "i", "d", " ", "H", "T", "T", "P",
      " ", "m", "e", "t", "h", "o", "d">>)
InvalidReqLineMsg ==
  Str(<<"I", "n", "v", "a", "l", "i", "d", " ", "r", "e", "q", "u",
      "e", "s", "t", " ", "l", "i", "n", "e">>)
OversizedBodyMsg ==
  Str(<<"R", "e", "q", "u", "e", "s", "t", " ", "b", "o", "d", "y",
      " ", "i", "s", " ", "t", "o", "o", " ", "l", "a", "r", "g",
      "e">>)

\* An error value: its kind and, for the kinds that wrap a library error,
\* the wrapped error's own description.
Err(kind, inner) == [kind |-> kind, inner |-> inner]

ErrorKinds ==
  {"ConnectionClosed", "InvalidMethod", "InvalidReqLine", "IoError",
   "OversizedBody", "ParseIntError", "Utf8Error"}

\* impl fmt::Display for ReqParseError
Display(err) ==
  CASE err.kind = "ConnectionClosed" -> ConnectionClosedMsg
    [] err.kind = "InvalidMethod"    -> InvalidMethodMsg
    [] err.kind = "InvalidReqLine"   -> InvalidReqLineMsg
    [] err.kind = "IoError"          -> err.inner
    [] err.kind = "OversizedBody"    -> OversizedBodyMsg
    [] err.kind = "ParseIntError"    -> err.inner
    [] err.kind = "Utf8Error"        -> err.inner

(***************************************************************************)
(* Request parser                                                          *)
(***************************************************************************)

\* A connection as the server reads it: the bytes the client sent, and how
\* the stream ends after them: with end of input (the client closed), or,
\* when fail is set, with a read error.
Stream(data, fail) == [data |-> data, fail |-> fail]

ReadFailureMsg ==
  Str(<<"C", "o", "n", "n", "e", "c", "t", "i", "o", "n", " ", "r",
      "e", "s", "e", "t", " ", "b", "y", " ", "p", "e", "e", "r",
      " ", "(", "o", "s", " ", "e", "r", "r", "o", "r", " ", "1",
      "0", "4", ")">>)
InvalidUtf8StreamMsg ==
  Str(<<"s", "t", "r", "e", "a", "m", " ", "d", "i", "d", " ", "n",
      "o", "t", " ", "c", "o", "n", "t", "a", "i", "n", " ", "v",
      "a", "l", "i", "d", " ", "U", "T", "F", "-", "8">>)
UnexpectedEofMsg ==
  Str(<<"f", "a", "i", "l", "e", "d", " ", "t", "o", " ", "f", "i",
      "l", "l", " ", "w", "h", "o", "l", "e", " ", "b", "u", "f",
      "f", "e", "r">>)
EmptyIntMsg ==
  Str(<<"c", "a", "n", "n", "o", "t", " ", "p", "a", "r", "s", "e",
      " ", "i", "n", "t", "e", "g", "e", "r", " ", "f", "r", "o",
      "m", " ", "e", "m", "p", "t", "y", " ", "s", "t", "r", "i",
      "n", "g">>)
InvalidDigitMsg ==
  Str(<<"i", "n", "v", "a", "l", "i", "d", " ", "d", "i", "g", "i",
      "t", " ", "f", "o", "u", "n", "d", " ", "i", "n", " ", "s",
      "t", "r", "i", "n", "g">>)
PosOverflowMsg ==
  Str(<<"n", "u", "m", "b", "e", "r", " ", "t", "o", "o", " ", "l",
      "a", "r", "g", "e", " ", "t", "o", " ", "f", "i", "t", " ",
      "i", "n", " ", "t", "a", "r", "g", "e", "t", " ", "t", "y",
      "p", "e">>)
InvalidUtf8SeqMsg ==
  Str(<<"i", "n", "v", "a", "l", "i", "d", " ", "u", "t", "f", "-",
      "8", " ", "s", "e", "q", "u", "e", "n", "c", "e", " ", "o",
      "f", " ">>)
IncompleteUtf8Msg ==
  Str(<<"i", "n", "c", "o", "m", "p", "l", "e", "t", "e", " ", "u",
      "t", "f", "-", "8", " ", "b", "y", "t", "e", " ", "s", "e",
      "q", "u", "e", "n", "c", "e", " ", "f", "r", "o", "m", " ",
      "i", "n", "d", "e", "x", " ">>)
BytesFromIndexMsg ==
  Str(<<" ", "b", "y", "t", "e", "s", " ", "f", "r", "o", "m", " ",
      "i", "n", "d", "e", "x", " ">>)

\* A faulty header reader: take(MAX_HEADER) is missing.
HeaderLimitNone(s) == Len(s.data)

\* The bytes the header reader, reader.take(MAX_HEADER), can deliver: past
\* MAX_HEADER bytes it reports end of input without reading the stream.
HeaderLimit(s) == Min({Len(s.data), MAX_HEADER})

\* read_line once the bytes up to position last were taken as the line: a
\* line that is not UTF-8 is an InvalidData io::Error.
LineRead(line, last) ==
  IF ~Utf8Valid(line)
  THEN [ok |-> FALSE, line |-> <<>>, next |-> last + 1, msg |-> InvalidUtf8StreamMsg]
  ELSE [ok |-> TRUE, line |-> line, next |-> last + 1, msg |-> <<>>]

\* read_line at position pos, nl being the position of the next LF within the
\* header limit, 0 if there is none: then the line ends where the readable
\* bytes end, unless reading on fails.
ReadLineTo(s, pos, nl) ==
  IF nl = 0 /\ Len(s.data) < MAX_HEADER /\ s.fail
  THEN [ok |-> FALSE, line |-> <<>>, next |-> pos, msg |-> ReadFailureMsg]
  ELSE IF nl = 0
  THEN LineRead(SubSeq(s.data, pos, HeaderLimit(s)), HeaderLimit(s))
  ELSE LineRead(SubSeq(s.data, pos, nl), nl)

\* The position of the first LF of data among positions pos to limit, 0 if
\* there is none.
FirstLF(data, pos, limit) ==
  IF \E j \in pos..limit : data[j] = LF
  THEN CHOOSE j \in pos..limit :
         data[j] = LF /\ \A i \in pos..(j - 1) : data[i] # LF
  ELSE 0

\* headers_reader.read_line at position pos of stream s.
read_line(s, pos) == ReadLineTo(s, pos, FirstLF(s.data, pos, HeaderLimit(s)))

\* The first token of t, which starts with a non-whitespace byte, ends at
\* position stop.
RECURSIVE split_whitespace(_)
TokenThenRest(t, stop) ==
  <<SubSeq(t, 1, stop)>> \o split_whitespace(From(t, stop + 1))

\* The tokens of t, which has no leading whitespace.
Tokens(t) ==
  IF t = <<>> THEN <<>>
  ELSE TokenThenRest(t, Min({i \in 1..(Len(t) + 1) : i > Len(t) \/ IsWhitespace(t[i])}) - 1)

split_whitespace(s) == Tokens(trim_start(s))

\* The header loop of parse_req from position pos on, and its body for the
\* line rl just read (colon: the result of line.split_once(':'), 0 for None).
RECURSIVE HeaderLoop(_, _, _)
HeaderLine(s, headers, rl, colon) ==
  IF colon = 0
  THEN HeaderLoop(s, rl.next, headers)
  ELSE HeaderLoop(s, rl.next,
         Append(headers, << trim(SubSeq(rl.line, 1, colon - 1)),
                            trim(From(rl.line, colon + 1)) >>))

HeaderStep(s, headers, rl) ==
  IF ~rl.ok
  THEN [ok |-> FALSE, err |-> Err("IoError", rl.msg), headers |-> headers, next |-> rl.next]
  ELSE IF Len(rl.line) = 0
  THEN [ok |-> FALSE, err |-> Err("ConnectionClosed", <<>>), headers |-> headers, next |-> rl.next]
  ELSE IF rl.line = CRLF
  THEN [ok |-> TRUE, err |-> Err("none", <<>>), headers |-> headers, next |-> rl.next]
  ELSE HeaderLine(s, headers, rl, Find(rl.line, <<58>>))

HeaderLoop(s, pos, headers) == HeaderStep(s, headers, read_line(s, pos))

IsDigit(b) == b >= 48 /\ b <= 57

RECURSIVE DecimalValue(_)
DecimalValue(ds) ==
  IF ds = <<>> THEN 0
  ELSE 10 * DecimalValue(SubSeq(ds, 1, Len(ds) - 1)) + (ds[Len(ds)] - 48)

UsizeMax ==
  Str(<<"1", "8", "4", "4", "6", "7", "4", "4", "0", "7", "3", "7",
      "0", "9", "5", "5", "1", "6", "1", "5">>)

\* a > b for digit strings of equal length.
DigitsGreater(a, b) ==
  \E i \in 1..Len(a) : a[i] > b[i] /\ \A j \in 1..(i - 1) : a[j] = b[j]

\* The digit string sig without leading zeros as a usize, or PosOverflow.
\* big marks a value of more than nine significant digits, which is held as
\* a digit string only.
UsizeOf(sig) ==
  IF Len(sig) > 20 \/ (Len(sig) = 20 /\ DigitsGreater(sig, UsizeMax))
  THEN [ok |-> FALSE, big |-> FALSE, val |-> 0, msg |-> PosOverflowMsg]
  ELSE IF Len(sig) > 9
  THEN [ok |-> TRUE, big |-> TRUE, val |-> 0, msg |-> <<>>]
  ELSE [ok |-> TRUE, big |-> FALSE, val |-> DecimalValue(sig), msg |-> <<>>]

\* The digits after an optional sign.
ParseDigits(digits) ==
  IF \E i \in 1..Len(digits) : ~IsDigit(digits[i])
  THEN [ok |-> FALSE, big |-> FALSE, val |-> 0, msg |-> InvalidDigitMsg]
  ELSE UsizeOf(Suffix(digits, {i \in 1..Len(digits) : digits[i] # 48}))

\* str::parse::<usize>() on a 64-bit target: an optional '+', then digits.
parse_usize(str) ==
  IF str = <<>>
  THEN [ok |-> FALSE, big |-> FALSE, val |-> 0, msg |-> EmptyIntMsg]
  ELSE ParseDigits(IF Len(str) > 1 /\ str[1] = 43 THEN Tail(str) ELSE str)

\* Utf8Error::valid_up_to: the length of the longest well-formed prefix.
valid_up_to(s) == Max({k \in 0..Len(s) : Utf8Valid(SubSeq(s, 1, k))})

\* rest is the start of a well-formed sequence cut short: some continuation
\* bytes complete it.  Only the first continuation byte is range-restricted,
\* and 128 or 191 is admissible wherever any byte is.
CutShort(rest) ==
  rest # <<>> /\ \E b \in {128, 191} :
    \/ Utf8Valid(rest \o <<b>>)
    \/ Utf8Valid(rest \o <<b, 128>>)
    \/ Utf8Valid(rest \o <<b, 128, 128>>)

\* Utf8Error::error_len when it is Some, rest being the bytes after the
\* well-formed prefix: the bytes of rest that could still start a
\* well-formed sequence, at least 1.
error_len(rest) ==
  Max({1} \cup {n \in 1..3 : n <= Len(rest) /\ CutShort(SubSeq(rest, 1, n))})

\* Display of FromUtf8Error for bytes s, k being valid_up_to.
Utf8ErrorAt(s, k) ==
  IF CutShort(From(s, k + 1))
  THEN IncompleteUtf8Msg \o ToDecimal(k)
  ELSE InvalidUtf8SeqMsg \o ToDecimal(error_len(From(s, k + 1))) \o BytesFromIndexMsg
         \o ToDecimal(k)

Utf8ErrorMsg(s) == Utf8ErrorAt(s, valid_up_to(s))

ContentLengthName ==
  Str(<<"C", "o", "n", "t", "e", "n", "t", "-", "L", "e", "n", "g", "t", "h">>)
GET == Str(<<"G", "E", "T">>)
POST == Str(<<"P", "O", "S", "T">>)

HttpRequest(method, path, headers, body) ==
  [method |-> method, path |-> path, headers |-> headers, body |-> body]

NoRequest == HttpRequest(<<>>, <<>>, <<>>, <<>>)

Failed(err, consumed) ==
  [ok |-> FALSE, req |-> NoRequest, err |-> err, consumed |-> consumed]

\* parse_req from String::from_utf8 on; consumed counts the bytes read.
DecodeBody(method, path, headers, body_bytes, consumed) ==
  IF ~Utf8Valid(body_bytes)
  THEN Failed(Err("Utf8Error", Utf8ErrorMsg(body_bytes)), consumed)
  ELSE [ok       |-> TRUE,
        req      |-> HttpRequest(method, path, headers, body_bytes),
        err      |-> Err("none", <<>>),
        consumed |-> consumed]

\* A faulty body read: read in place of read_exact, a short body is accepted.
ReadBodyShort(s, method, path, headers, pos, content_length) ==
  DecodeBody(method, path, headers,
             SubSeq(s.data, pos, Min({Len(s.data), pos + content_length - 1})),
             Min({Len(s.data), pos - 1 + content_length}))

\* parse_req from reader.read_exact on: the body starts at position pos.  A
\* stream that ends before content_length bytes fails the read.
ReadBody(s, method, path, headers, pos, content_length) ==
  IF Len(s.data) - (pos - 1) < content_length
  THEN Failed(Err("IoError", IF s.fail THEN ReadFailureMsg ELSE UnexpectedEofMsg),
              Len(s.data))
  ELSE DecodeBody(method, path, headers,
                  SubSeq(s.data, pos, pos + content_length - 1),
                  pos - 1 + content_length)

\* A faulty cap test: a body of exactly MAX_BODY bytes is refused.
CheckLengthAtCap(s, method, path, hl, content_length) ==
  IF ~content_length.ok
  THEN Failed(Err("ParseIntError", content_length.msg), hl.next - 1)
  ELSE IF content_length.big \/ content_length.val >= MAX_BODY
  THEN Failed(Err("OversizedBody", <<>>), hl.next - 1)
  ELSE ReadBody(s, method, path, hl.headers, hl.next, content_length.val)

\* parse_req from the parse of Content-Length on.
CheckLength(s, method, path, hl, content_length) ==
  IF ~content_length.ok
  THEN Failed(Err("ParseIntError", content_length.msg), hl.next - 1)
  ELSE IF content_length.big \/ content_length.val > MAX_BODY
  THEN Failed(Err("OversizedBody", <<>>), hl.next - 1)
  ELSE ReadBody(s, method, path, hl.headers, hl.next, content_length.val)

\* parse_req after the header loop, whose outcome is hl.
AfterHeaders(s, method, path, hl) ==
  IF ~hl.ok THEN Failed(hl.err, hl.next - 1)
  ELSE CheckLength(s, method, path, hl,
                   parse_usize(FindHeader(hl.headers, ContentLengthName, Zero)))

\* parse_req from the method test on; the headers start at position pos.
CheckMethod(s, pos, method, path) ==
  IF method # GET /\ method # POST
  THEN Failed(Err("InvalidMethod", <<>>), pos - 1)
  ELSE AfterHeaders(s, method, path, HeaderLoop(s, pos, <<>>))

\* A faulty request line test: the method is tested before the tokens are
\* counted.
CheckPartsMethodFirst(s, pos, parts) ==
  IF Len(parts) >= 1 /\ to_ascii_uppercase(parts[1]) # GET /\ to_ascii_uppercase(parts[1]) # POST
  THEN Failed(Err("InvalidMethod", <<>>), pos - 1)
  ELSE IF Len(parts) < 2
  THEN Failed(Err("InvalidReqLine", <<>>), pos - 1)
  ELSE AfterHeaders(s, to_ascii_uppercase(parts[1]), parts[2], HeaderLoop(s, pos, <<>>))

\* parse_req from the token count on.
CheckParts(s, pos, parts) ==
  IF Len(parts) < 2
  THEN Failed(Err("InvalidReqLine", <<>>), pos - 1)
  ELSE CheckMethod(s, pos, to_ascii_uppercase(parts[1]), parts[2])

\* parse_req after the request line was read, with outcome rl.
AfterReqLine(s, rl) ==
  IF ~rl.ok THEN Failed(Err("IoError", rl.msg), rl.next - 1)
  ELSE IF Len(rl.line) = 0 THEN Failed(Err("ConnectionClosed", <<>>), rl.next - 1)
  ELSE CheckParts(s, rl.next, split_whitespace(rl.line))

\* parse_req on stream s: Ok(req) or Err(err), with the number of bytes of
\* the stream consumed.
parse_req(s) == AfterReqLine(s, read_line(s, 1))

(***************************************************************************)
(* Inputs                                                                  *)
(***************************************************************************)

\* The number of URLs of UrlList that clients submit.
MaxUrls == 4

\* http://x, http://y and http://z have the same unsalted code; the salted
\* codes of http://x for attempts 1 to 9 are all the unsalted code of
\* http://x:1, and the one for attempt 10 is the unsalted code of http://x:10.
UrlList ==
  << HttpScheme \o Str(<<"x">>),
     HttpScheme \o Str(<<"y">>),
     HttpScheme \o Str(<<"x", ":", "1">>),
     HttpScheme \o Str(<<"x", ":", "1", "0">>),
     HttpScheme \o Str(<<"z">>),
     HttpsScheme \o Str(<<"a">>) >>

URLs == {UrlList[i] : i \in 1..Min({MaxUrls, Len(UrlList)})}

Codes == {shorten_url(u, a) : u \in URLs, a \in 0..MaxAttempt}

UnsaltedCodes == {shorten_url(u, 0) : u \in URLs}

Secret == Str(<<"a", ":", "b">>)

Secrets == {<<>>, Secret}

JsonBody(u) == Str(<<"{", "\"", "u", "r", "l", "\"", ":", " ", "\"">>) \o u \o Str(<<"\"", "}">>)

BadBodies ==
  { <<>>,
    Str(<<"{", "}">>),
    Str(<<"{", "\"", "u", "r", "l", "\"", ":", " ", "h", "t", "t", "p",
      ":", "/", "/", "x", "}">>),
    Str(<<"{", "\"", "u", "r", "l", "\"", ":", " ", "\"", "f", "t", "p",
      ":", "/", "/", "x", "\"", "}">>),
    Str(<<"{", "\"", "u", "r", "l", "\"", ":", " ", "\"", "h", "t", "t",
      "p", ":", "/", "/", "x">>),
    Str(<<"{", "\"", "u", "r", "i", "\"", ":", " ", "\"", "h", "t", "t",
      "p", ":", "/", "/", "x", "\"", "}">>) }

Bodies == {JsonBody(u) : u \in URLs} \cup BadBodies

AuthHeader(name, value) == << <<name, value>> >>

GoodAuth == AuthHeader(AuthorizationName, BasicPrefix \o Str(<<"Y", "T", "p", "i">>))

\* Header lists the credential gate accepts for Secret.
AcceptedAuths ==
  { GoodAuth,
    AuthHeader(Str(<<"a", "u", "t", "h", "o", "r", "i", "z", "a", "t", "i", "o", "n">>), BasicPrefix \o Str(<<"Y", "T", "p", "i">>)),
    AuthHeader(AuthorizationName, BasicPrefix \o Str(<<"Y", "T", "p", "i", "=", "!">>)),
    GoodAuth \o AuthHeader(AuthorizationName, Str(<<"B", "e", "a", "r", "e", "r", " ", "Y", "T", "p", "i">>)) }

\* Header lists the credential gate rejects for Secret.
RejectedAuths ==
  { <<>>,
    AuthHeader(Str(<<"H", "o", "s", "t">>), Str(<<"h">>)),
    AuthHeader(AuthorizationName, Str(<<"B", "e", "a", "r", "e", "r", " ", "Y", "T", "p", "i">>)),
    AuthHeader(AuthorizationName, Str(<<"b", "a", "s", "i", "c", " ", "Y", "T", "p", "i">>)),
    AuthHeader(AuthorizationName, BasicPrefix \o Str(<<"Y", "T", "!", "i">>)),
    AuthHeader(AuthorizationName, BasicPrefix \o Str(<<"Y", "T", "p", "j">>)),
    AuthHeader(AuthorizationName, BasicPrefix \o Str(<<"/", "w", "=", "=">>)),
    AuthHeader(AuthorizationName, BasicPrefix),
    AuthHeader(AuthorizationName, Str(<<"B", "e", "a", "r", "e", "r", " ", "Y", "T", "p", "i">>)) \o GoodAuth }

PostRequests ==
  {HttpRequest(POST, Slash, h, b) : h \in {GoodAuth, <<>>}, b \in Bodies}
  \cup {HttpRequest(POST, Slash, h, b) :
          h \in AcceptedAuths \cup RejectedAuths,
          b \in {JsonBody(UrlList[1]), <<>>}}

GetPaths ==
  {Slash, <<>>, Slash \o Slash, Str(<<"/", "z", "z", "z">>), Slash \o <<195, 169>>}
  \cup {Slash \o c : c \in Codes}
  \cup {Slash \o Slash \o c : c \in UnsaltedCodes}
  \cup UnsaltedCodes
  \cup {Slash \o c \o Str(<<"x">>) : c \in UnsaltedCodes}
  \cup {Slash \o SubSeq(c, 1, 3) \o Slash \o SubSeq(c, 4, 5) : c \in UnsaltedCodes}
  \cup {Slash \o SubSeq(c, 1, 3) \o Str(<<"-">>) \o SubSeq(c, 4, 5) : c \in UnsaltedCodes}

GetRequests == {HttpRequest(GET, p, <<>>, <<>>) : p \in GetPaths}

Errors ==
  { Err("ConnectionClosed", <<>>), Err("InvalidMethod", <<>>),
    Err("InvalidReqLine", <<>>), Err("OversizedBody", <<>>),
    Err("IoError", ReadFailureMsg), Err("IoError", UnexpectedEofMsg),
    Err("IoError", InvalidUtf8StreamMsg),
    Err("ParseIntError", EmptyIntMsg), Err("ParseIntError", InvalidDigitMsg),
    Err("ParseIntError", PosOverflowMsg),
    Err("Utf8Error", Utf8ErrorMsg(<<255>>)), Err("Utf8Error", Utf8ErrorMsg(<<97, 226, 130>>)) }

GetText ==
  Str(<<"G", "E", "T", " ", "/", "1", "9", "j", "k", "a", "A", "8", " ", "H", "T", "T", "P", "/", "1", ".", "1">>) \o CRLF
  \o Str(<<"H", "o", "s", "t", ":", " ", "h">>) \o CRLF
  \o CRLF

PostText ==
  Str(<<"p", "o", "s", "t", " ", "/", " ", "H", "T", "T", "P", "/", "1", ".", "1">>) \o CRLF
  \o Str(<<"A", "u", "t", "h", "o", "r", "i", "z", "a", "t", "i", "o", "n", ":", " ", "B", "a", "s", "i", "c", " ", "Y", "T", "p", "i">>) \o CRLF
  \o Str(<<"C", "o", "n", "t", "e", "n", "t", "-", "L", "e", "n", "g", "t", "h", ":", " ", "1", "9">>) \o CRLF
  \o CRLF
  \o JsonBody(UrlList[1])

Texts == {GetText, PostText}

PostLine == Str(<<"P", "O", "S", "T", " ", "/", " ", "H", "T", "T", "P", "/", "1", ".", "1">>) \o CRLF

\* A header line as a client sends it.
HeaderText(name, value) == name \o Str(<<":", " ">>) \o value \o CRLF

\* POST requests with three body bytes that declare other body lengths: one
\* above MAX_BODY ahead of a second Content-Length header, the same two
\* headers in the other order, MAX_BODY itself, ten digits, a plus sign, and
\* usize::MAX + 1.
LengthTexts ==
  { PostLine
      \o HeaderText(Str(<<"c", "o", "n", "t", "e", "n", "t", "-", "l", "e", "n", "g", "t", "h">>),
                    Str(<<"1", "0", "2", "4", "0", "1">>))
      \o HeaderText(ContentLengthName, Str(<<"3">>))
      \o CRLF \o Str(<<"a", "b", "c">>),
    PostLine
      \o HeaderText(ContentLengthName, Str(<<"3">>))
      \o HeaderText(Str(<<"c", "o", "n", "t", "e", "n", "t", "-", "l", "e", "n", "g", "t", "h">>),
                    Str(<<"1", "0", "2", "4", "0", "1">>))
      \o CRLF \o Str(<<"a", "b", "c">>),
    PostLine
      \o HeaderText(ContentLengthName, Str(<<"1", "0", "2", "4", "0", "0">>))
      \o CRLF \o Str(<<"a", "b", "c">>),
    PostLine
      \o HeaderText(ContentLengthName, Str(<<"9", "9", "9", "9", "9", "9", "9", "9", "9", "9">>))
      \o CRLF \o Str(<<"a", "b", "c">>),
    PostLine
      \o HeaderText(ContentLengthName, Str(<<"+", "0", "1", "0", "2", "4", "0", "1">>))
      \o CRLF \o Str(<<"a", "b", "c">>),
    PostLine
      \o HeaderText(ContentLengthName, Str(<<"1", "8", "4", "4", "6", "7", "4", "4", "0", "7", "3", "7",
                                              "0", "9", "5", "5", "1", "6", "1", "6">>))
      \o CRLF \o Str(<<"a", "b", "c">>) }

\* Requests told apart by their request line: one token (GET, DELETE), no
\* token, a byte that is no UTF-8, other methods with two and three tokens,
\* and GET and POST in mixed case with two tokens.
LineTexts ==
  { Str(<<"G", "E", "T">>) \o CRLF \o CRLF,
    Str(<<"D", "E", "L", "E", "T", "E">>) \o CRLF \o CRLF,
    Str(<<" ">>) \o CRLF \o CRLF,
    <<255>> \o CRLF \o CRLF,
    Str(<<"D", "E", "L", "E", "T", "E", " ", "/", " ", "H", "T", "T", "P", "/", "1", ".", "1">>) \o CRLF \o CRLF,
    Str(<<"G", "E", "T", "S", " ", "/", "x">>) \o CRLF \o CRLF,
    Str(<<"g", "E", "t", " ", "/">>) \o CRLF \o CRLF,
    Str(<<"P", "o", "S", "t", " ", "/", "x">>) \o CRLF \o CRLF }

\* n bytes "a".
Pad(n) == [i \in 1..n |-> 97]

\* The length of the header lines that long requests are filled with.
PadLine == 1024

\* The text first followed by header lines X, of PadLine bytes each but for
\* the last one, that bring it to total bytes.
RECURSIVE Padded(_, _)
Padded(first, total) ==
  IF total - Len(first) <= PadLine + 5
  THEN first \o HeaderText(Str(<<"X">>), Pad(total - Len(first) - 5))
  ELSE Padded(first \o HeaderText(Str(<<"X">>), Pad(PadLine - 5)), total)

GetLine == Str(<<"G", "E", "T", " ", "/", " ", "H", "T", "T", "P", "/", "1", ".", "1">>) \o CRLF

\* Requests around MAX_HEADER bytes of request line and headers: the LF of
\* the empty line is byte MAX_HEADER + 1; the empty line ends at byte
\* MAX_HEADER and a body follows; a header line runs over the cap, after a
\* POST line and after a DELETE line; a request line of one token and one of
\* two tokens run over it; a two-byte character lies across it.
LongTexts ==
  { Padded(PostLine \o HeaderText(ContentLengthName, Str(<<"3">>)), MAX_HEADER - 1)
      \o CRLF \o Str(<<"a", "b", "c">>),
    Padded(PostLine \o HeaderText(ContentLengthName, Str(<<"3">>)), MAX_HEADER - 2)
      \o CRLF \o Str(<<"a", "b", "c">>),
    Padded(PostLine \o HeaderText(ContentLengthName, Str(<<"3">>)), MAX_HEADER + 1)
      \o CRLF \o Str(<<"a", "b", "c">>),
    Padded(Str(<<"D", "E", "L", "E", "T", "E", " ", "/">>) \o CRLF, MAX_HEADER + 1) \o CRLF,
    GET \o Pad(MAX_HEADER) \o CRLF \o CRLF,
    Str(<<"G", "E", "T", " ", "/">>) \o Pad(MAX_HEADER) \o CRLF \o CRLF,
    Padded(GetLine, MAX_HEADER - 8) \o Str(<<"X", ":", " ">>) \o Pad(4)
      \o <<195, 169>> \o CRLF \o CRLF }

\* Every connection that sends a prefix of one of the texts and then is
\* closed by the client or fails, the connections that send one of the
\* other requests whole or one of the long requests whole, and one that
\* fails after a long request.
Streams ==
  UNION {{Stream(SubSeq(t, 1, n), f) : n \in 0..Len(t), f \in BOOLEAN} : t \in Texts}
  \cup {Stream(t, FALSE) : t \in LengthTexts \cup LineTexts}
  \cup {Stream(t, FALSE) : t \in LongTexts}
  \cup {Stream(Padded(GetLine, MAX_HEADER + 1) \o CRLF, TRUE)}

NoStream == Stream(<<>>, FALSE)
NoErr == Err("none", <<>>)
NoResponse == Response(0, <<>>, <<>>)

(***************************************************************************)
(* Tabulation                                                              *)
(*                                                                         *)
(* parse_req, check_basic_auth, extract_url and shorten_url do not depend  *)
(* on the Store.  Each is evaluated once for every input the model feeds   *)
(* it, and the handlers below look the result up.                          *)
(***************************************************************************)

ParseTable == [s \in Streams |-> parse_req(s)]

\* The POST requests the server is given, directly or off a connection.
AllPostRequests ==
  PostRequests
  \cup {ParseTable[s].req : s \in {t \in Streams : ParseTable[t].ok /\ ParseTable[t].req.method = POST}}

AuthTable ==
  [h \in {r.headers : r \in AllPostRequests}, e \in Secrets |-> check_basic_auth(h, e)]

ExtractTable == [b \in {r.body : r \in AllPostRequests} |-> extract_url(b)]

SubmittedUrls ==
  {ExtractTable[b].val : b \in {c \in DOMAIN ExtractTable : ExtractTable[c].some}}

ShortenTable ==
  [u \in SubmittedUrls, a \in 0..MaxAttempt |-> shorten_url(u, a)]

(***************************************************************************)
(* Handlers                                                                *)
(***************************************************************************)

\* path.trim_start_matches('/'): every leading '/' is removed.
trim_start_matches_slash(path) ==
  LET keep == {i \in 1..Len(path) : path[i] # 47}
  IN  IF keep = {} THEN <<>> ELSE From(path, Min(keep))

is_ascii(s) == \A i \in 1..Len(s) : s[i] < 128

\* The response handle_get writes for request r against store st.
handle_get(st, r) ==
  IF r.path = Slash THEN handle_root
  ELSE LET short == trim_start_matches_slash(r.path)
       IN  IF \/ short = <<>>
              \/ Len(short) > 7
              \/ ~is_ascii(short)
              \/ ~(\A i \in 1..Len(short) : Contains(BASE62, short[i]))
           THEN redirect_to_root
           ELSE IF short \in DOMAIN st
           THEN Response(302,
                         << <<"Location", st[short]>>,
                            <<"Content-Length", Zero>>,
                            <<"Connection", Close>> >>,
                         <<>>)
           ELSE redirect_to_root

ServerError ==
  Response(500, << <<"Content-Length", Zero>>, <<"Connection", Close>> >>, <<>>)

Unauthorized ==
  Response(401,
           << <<"WWW-Authenticate", Basic>>,
              <<"Content-Length", Zero>>,
              <<"Connection", Close>> >>,
           <<>>)

\* A faulty collision test: the comparison of the stored URL is inverted.
CollidesWithSame(st, short, url) == short \in DOMAIN st /\ st[short] = url

\* A faulty collision test: any entry under the code counts as a collision.
CollidesWithAny(st, short, url) == short \in DOMAIN st

\* The condition of the while loop of handle_post: the Store maps short to a
\* URL other than the submitted one.
Collides(st, short, url) == short \in DOMAIN st /\ st[short] # url

\* The while loop of handle_post, entered with candidate short computed for
\* attempt.  calls counts the shorten_url calls made so far.
RECURSIVE CollisionLoop(_, _, _, _)
CollisionLoop(st, url, attempt, short) ==
  IF Collides(st, short, url)
  THEN IF attempt + 1 > MaxAttempt
       THEN [ok |-> FALSE, short |-> short, calls |-> attempt + 1]
       ELSE CollisionLoop(st, url, attempt + 1, ShortenTable[url, attempt + 1])
  ELSE [ok |-> TRUE, short |-> short, calls |-> attempt + 1]

\* HashMap::insert: the entry for k is created or overwritten.
Insert(st, k, v) == [c \in DOMAIN st \cup {k} |-> IF c = k THEN v ELSE st[c]]

\* The 400 response of handle_post: no usable URL in the body.
BadUrl ==
  Response(400,
           << <<"Content-Type", TextPlain>>,
              <<"Content-Length", ToDecimal(Len(BadUrlMsg))>>,
              <<"Connection", Close>> >>,
           BadUrlMsg)

\* The 200 response of handle_post: the body is the short code.
Created(short) ==
  Response(200,
           << <<"Content-Type", TextPlain>>,
              <<"Content-Length", ToDecimal(Len(short))>>,
              <<"Connection", Close>> >>,
           short)

\* What handle_post did: the responses it wrote to the stream, in order (resp
\* is the one written last), the Store afterwards, and the number of codes it
\* computed.
Outcome(writes, st, n) ==
  [resp |-> writes[Len(writes)], writes |-> writes, store |-> st, calls |-> n]

\* A faulty end of handle_post: the entry is stored under the unsalted code
\* instead of the code the loop settled on.
AfterLoopUnsalted(st, url, loop) ==
  IF ~loop.ok
  THEN Outcome(<<ServerError>>, st, loop.calls)
  ELSE Outcome(<<Created(loop.short)>>, Insert(st, ShortenTable[url, 0], url), loop.calls)

\* A faulty end of handle_post: the return after the 500 response is missing,
\* so the last candidate is stored all the same.
AfterLoopNoReturn(st, url, loop) ==
  Outcome(IF loop.ok THEN <<Created(loop.short)>> ELSE <<ServerError, Created(loop.short)>>,
          Insert(st, loop.short, url),
          loop.calls)

\* A faulty end of handle_post: the candidate is stored before the loop's
\* result is looked at, so the Store changes on the 500 path too.
AfterLoopStoresFirst(st, url, loop) ==
  Outcome(IF loop.ok THEN <<Created(loop.short)>> ELSE <<ServerError>>,
          Insert(st, loop.short, url),
          loop.calls)

\* handle_post after its while loop ended with result loop.
AfterLoop(st, url, loop) ==
  IF ~loop.ok
  THEN Outcome(<<ServerError>>, st, loop.calls)
  ELSE Outcome(<<Created(loop.short)>>, Insert(st, loop.short, url), loop.calls)

\* handle_post once extract_url has returned u.
AfterExtract(st, u) ==
  IF u.some
  THEN AfterLoop(st, u.val, CollisionLoop(st, u.val, 0, ShortenTable[u.val, 0]))
  ELSE Outcome(<<BadUrl>>, st, 0)

\* A faulty handle_post: the test for an empty BASIC_AUTH is missing.
handle_post_unguarded(st, expected_auth, r) ==
  IF ~AuthTable[r.headers, expected_auth]
  THEN Outcome(<<Unauthorized>>, st, 0)
  ELSE AfterExtract(st, ExtractTable[r.body])

\* handle_post for request r against store st with BASIC_AUTH = expected_auth:
\* the response written, the store afterwards, the number of codes computed.
handle_post(st, expected_auth, r) ==
  IF expected_auth = <<>>
  THEN Outcome(<<ServerError>>, st, 0)
  ELSE IF ~AuthTable[r.headers, expected_auth]
  THEN Outcome(<<Unauthorized>>, st, 0)
  ELSE AfterExtract(st, ExtractTable[r.body])

\* A faulty handle_err: ConnectionClosed is taken for the I/O kind.
ErrResponseClosed(kind, msg) ==
  Response(IF kind = "ConnectionClosed" THEN 500 ELSE 400,
           << <<"Content-Type", TextPlain>>,
              <<"Content-Length", ToDecimal(Len(msg))>>,
              <<"Connection", Close>> >>,
           msg)

\* The response of handle_err with the message msg of the error.
ErrResponse(kind, msg) ==
  Response(IF kind = "IoError" THEN 500 ELSE 400,
           << <<"Content-Type", TextPlain>>,
              <<"Content-Length", ToDecimal(Len(msg))>>,
              <<"Connection", Close>> >>,
           msg)

handle_err(err) == ErrResponse(err.kind, Display(err))

(***************************************************************************)
(* The server                                                              *)
(***************************************************************************)

Init ==
  /\ store = <<>>
  /\ basic_auth \in Secrets
  /\ op = "none"
  /\ stream = NoStream
  /\ req = NoRequest
  /\ failure = NoErr
  /\ resp = NoResponse
  /\ pre = <<>>
  /\ calls = 0
  /\ issued = {}
  /\ written = <<>>
  /\ result = None

\* handle_get is called with request r.
Get(s, r) ==
  /\ op' = "get"
  /\ stream' = s
  /\ req' = r
  /\ failure' = NoErr
  /\ resp' = handle_get(store, r)
  /\ written' = <<resp'>>
  /\ pre' = store
  /\ calls' = 0
  /\ UNCHANGED <<store, basic_auth, issued, result>>

\* The state after handle_post returned out for request r.
Posted(s, r, out) ==
  /\ op' = "post"
  /\ stream' = s
  /\ req' = r
  /\ failure' = NoErr
  /\ resp' = out.resp
  /\ written' = out.writes
  /\ store' = out.store
  /\ pre' = store
  /\ calls' = out.calls
  /\ issued' = IF out.resp.status = 200
               THEN issued \cup {<<ExtractTable[r.body].val, out.resp.body>>}
               ELSE issued
  /\ UNCHANGED <<basic_auth, result>>

\* handle_post is called with request r.
Post(s, r) == Posted(s, r, handle_post(store, basic_auth, r))

\* handle_err is called with error e.
Fail(s, e) ==
  /\ op' = "err"
  /\ stream' = s
  /\ req' = NoRequest
  /\ failure' = e
  /\ resp' = handle_err(e)
  /\ written' = <<resp'>>
  /\ pre' = store
  /\ calls' = 0
  /\ UNCHANGED <<store, basic_auth, issued, result>>

HandleGet == \E r \in GetRequests : Get(NoStream, r)

HandlePost == \E r \in PostRequests : Post(NoStream, r)

HandleErr == \E e \in Errors : Fail(NoStream, e)

\* A connection is accepted and served: the request is parsed and handed to
\* the handler for its method, a parse error to handle_err.
HandleClient ==
  \E s \in Streams :
    LET request == ParseTable[s]
    IN  IF ~request.ok THEN Fail(s, request.err)
        ELSE IF request.req.method = GET THEN Get(s, request.req)
        ELSE Post(s, request.req)

\* The handlers of lib.rs called with parsed requests and parse errors.
Next == HandleGet \/ HandlePost \/ HandleErr

Spec == Init /\ [][Next]_vars

\* The server fed with connections.
SpecClient == Init /\ [][HandleClient]_vars

(***************************************************************************)
(* The functions called on their own                                       *)
(***************************************************************************)

\* A URL whose djb2 hash has its low 48 bits all zero
\* (0xcdf9000000000000).
ZeroHashUrl == HttpScheme \o Str(<<"5", "s", "c", "t", "9", "b", "T", "1", "X", "0">>)

\* Strings given to shorten_url.
HashInputs ==
  { <<>>,
    Str(<<"a">>),
    Str(<<"0">>),
    HttpsScheme \o Str(<<"e", "x", "a", "m", "p", "l", "e", ".", "c", "o", "m">>),
    HttpScheme \o <<195, 169>>,
    ZeroHashUrl }
  \cup {UrlList[i] : i \in 1..Len(UrlList)}

\* Header lists and expected secrets given to check_basic_auth.
AuthInputs ==
  AcceptedAuths \cup RejectedAuths
  \cup { AuthHeader(AuthorizationName, BasicPrefix \o Str(<<"w", "6", "k", "=">>)),
         AuthHeader(AuthorizationName, BasicPrefix \o Str(<<"Y", "T", "p", "i", "Y", "w", "=", "=">>)),
         AuthHeader(AuthorizationName, BasicPrefix \o Str(<<"=", "Y", "T", "p", "i">>)),
         AuthHeader(AuthorizationName, Str(<<"B", "a", "s", "i", "c">>)),
         AuthHeader(ContentLengthName, BasicPrefix \o Str(<<"Y", "T", "p", "i">>)) }

\* The expected secret is a &str: valid UTF-8.
ExpectedInputs == {<<>>, Secret, <<195, 169>>, Str(<<"a", ":", "b", "c">>)}

\* Bodies given to extract_url.
BodyInputs ==
  Bodies
  \cup { Str(<<"{", "\"", "u", "r", "l", "\"", ":", "\"", "h", "t", "t", "p", "s", ":", "/", "/", "a", "\"", "}">>),
         Str(<<"\"", "u", "r", "l", "\"", ":">>) \o <<9, 10, 32>> \o Str(<<"\"", "h", "t", "t", "p", ":", "/", "/", "\"">>),
         Str(<<"\"", "u", "r", "l", "\"", ":">>),
         Str(<<"\"", "u", "r", "l", "\"", ":", " ", "\"", "\"">>),
         Str(<<"\"", "u", "r", "l", "\"", ":", " ", "\"">>),
         Str(<<"\"", "u", "r", "l", "\"", ":", "\"", "x", "h", "t", "t", "p", ":", "/", "/", "a", "\"">>),
         Str(<<"\"", "u", "r", "l", "\"", ":", "\"", "h", "t", "t", "p", ":", "/", "a", "\"">>),
         Str(<<"\"", "u", "r", "l", "\"", ":", "1", ",", "\"", "u", "r", "l", "\"", ":", "\"", "h", "t", "t", "p", ":", "/", "/", "a", "\"">>),
         Str(<<"\"", "u", "r", "l", "\"", ":", "\"", "h", "t", "t", "p", ":", "/", "/", "a", "\"", ",", "\"", "u", "r", "l", "\"", ":", "1">>),
         Str(<<"\"", "U", "R", "L", "\"", ":", "\"", "h", "t", "t", "p", ":", "/", "/", "a", "\"">>),
         Str(<<"\"", "u", "r", "l", "\"", " ", ":", "\"", "h", "t", "t", "p", ":", "/", "/", "a", "\"">>),
         Str(<<"u", "r", "l", ":", "\"", "h", "t", "t", "p", ":", "/", "/", "a", "\"">>),
         Str(<<"\"", "u", "r", "l", "\"", ":", "\"", "h", "t", "t", "p", ":", "/", "/", "a", " ", "b", "\"", "c", "\"">>) }

ShortenResults == [u \in HashInputs, a \in 0..MaxAttempt |-> shorten_url(u, a)]

AuthResults == [h \in AuthInputs, e \in ExpectedInputs |-> check_basic_auth(h, e)]

ExtractResults == [b \in BodyInputs |-> extract_url(b)]

\* Function f was called with arguments args and returned value.
Called(f, args, value) ==
  /\ op' = f
  /\ req' = args
  /\ result' = value
  /\ UNCHANGED <<store, basic_auth, stream, failure, resp, pre, calls, issued, written>>

Shorten == \E u \in HashInputs, a \in 0..MaxAttempt : Called("shorten_url", <<u, a>>, ShortenResults[u, a])

CheckAuth == \E h \in AuthInputs, e \in ExpectedInputs : Called("check_basic_auth", <<h, e>>, AuthResults[h, e])

Extract == \E b \in BodyInputs : Called("extract_url", <<b>>, ExtractResults[b])

NextPure == Shorten \/ CheckAuth \/ Extract

\* shorten_url, check_basic_auth and extract_url called on their own.
SpecPure == Init /\ [][NextPure]_vars

(***************************************************************************)
(* Properties of the shortener: Store, codes and collisions                *)
(***************************************************************************)

\* C1: round trip.  Whenever handle_post has answered 200 with code c for URL
\* u (the pairs of issued), then in every later state, whatever GET and POST
\* requests were handled since, handle_get for path "/" + c answers 302 with
\* a Location header equal to u byte for byte; and a GET of such a path that
\* the server did handle was answered so.
RoundTrip ==
  /\ \A p \in issued :
       LET answer == handle_get(store, HttpRequest(GET, Slash \o p[2], <<>>, <<>>))
       IN  /\ answer.status = 302
           /\ HasHeader(answer, "Location")
           /\ Header(answer, "Location") = p[1]
  /\ op = "get" =>
       \A p \in issued :
         req.path = Slash \o p[2] =>
           /\ resp.status = 302
           /\ HasHeader(resp, "Location")
           /\ Header(resp, "Location") = p[1]

\* A GET of an issued salted code, answered 302, after three URLs were stored.
RoundTripSeen ==
  /\ op = "get"
  /\ resp.status = 302
  /\ Cardinality(DOMAIN store) >= 3
  /\ \E p \in issued : req.path = Slash \o p[2] /\ p[2] # ShortenTable[p[1], 0]

\* C2: idempotence.  Any two POSTs of the same URL answered 200 returned the
\* same code, whatever was handled before, between or after them.
Idempotence == \A p, q \in issued : p[1] = q[1] => p[2] = q[2]

\* A URL whose unsalted code collides with another URL's entry is posted a
\* second time and is answered with the code it already has.
IdempotenceSeen ==
  /\ op = "post"
  /\ resp.status = 200
  /\ calls >= 2
  /\ resp.body \in DOMAIN pre
  /\ pre[resp.body] = ExtractTable[req.body].val
  /\ <<ExtractTable[req.body].val, resp.body>> \in issued

\* C3: a code the Store maps is never remapped.  Every step keeps every entry
\* of the Store as it is (none is overwritten with another URL, none is
\* removed), and no code was ever issued for two different URLs.
NeverRemapped ==
  /\ [][\A c \in DOMAIN store : c \in DOMAIN store' /\ store'[c] = store[c]]_vars
  /\ [](\A p, q \in issued : p[2] = q[2] => p[1] = q[1])

\* A POST met a collision: the unsalted code of its URL is still mapped to
\* the other URL, and the POST was answered 200 with a salted code.
NeverRemappedSeen ==
  /\ op = "post"
  /\ resp.status = 200
  /\ calls >= 2
  /\ ShortenTable[ExtractTable[req.body].val, 0] \in DOMAIN store
  /\ store[ShortenTable[ExtractTable[req.body].val, 0]] # ExtractTable[req.body].val
  /\ store[resp.body] = ExtractTable[req.body].val

\* C4: collision cap.  handle_post computes at most 11 candidate codes per
\* request; when the unsalted code of the URL and the codes of url ":" 1 to
\* url ":" 10 are all mapped in the Store to URLs other than the submitted
\* one, the request is answered 500 after 11 candidates and the Store is
\* left unchanged.
CollisionCap ==
  op = "post" =>
    /\ calls <= MaxAttempt + 1
    /\ (basic_auth # <<>> /\ AuthTable[req.headers, basic_auth] /\ ExtractTable[req.body].some) =>
         LET url == ExtractTable[req.body].val
             candidate(a) ==
               IF a = 0 THEN shorten_url(url, 0)
               ELSE shorten_url(url \o Str(<<":">>) \o ToDecimal(a), 0)
         IN  (\A a \in 0..MaxAttempt :
                candidate(a) \in DOMAIN pre /\ pre[candidate(a)] # url)
             => resp.status = 500 /\ store = pre /\ calls = MaxAttempt + 1

\* A POST past the credential gate exhausted its 11 candidates.
CollisionCapSeen ==
  /\ op = "post"
  /\ basic_auth # <<>>
  /\ ExtractTable[req.body].some
  /\ calls = MaxAttempt + 1
  /\ resp.status = 500
  /\ store = pre
  /\ Cardinality(DOMAIN store) >= 3

(***************************************************************************)
(* Properties of the credential gate and of the POST body                  *)
(***************************************************************************)

\* C5: fail closed.  With BASIC_AUTH unset or empty every POST is answered
\* 500 and leaves the Store unchanged, whatever its Authorization header and
\* its body.
FailClosed ==
  (op = "post" /\ basic_auth = <<>>) => (resp.status = 500 /\ store = pre)

\* With no secret configured, a POST of a valid URL with a well-formed Basic
\* header was answered 500.
FailClosedSeen ==
  /\ op = "post"
  /\ basic_auth = <<>>
  /\ req.headers \in AcceptedAuths
  /\ ExtractTable[req.body].some
  /\ resp.status = 500
  /\ store = pre

\* C6: with a non-empty secret, a POST is answered 401 with the header
\* WWW-Authenticate: Basic, and the Store is left unchanged, when it has no
\* Authorization header, or when the value of the Authorization header (the
\* first one, names compared without regard to case) does not start with
\* "Basic ", or has after "Basic " a payload that is not Base64 (a character
\* outside the alphabet before the first "="), or decodes to a value that
\* differs from the secret.
Rejected ==
  LET named(h) == {i \in 1..Len(h) : eq_ignore_ascii_case(h[i][1], AuthorizationName)}
      value(h) == h[Min(named(h))][2]
      payload(h) == From(value(h), Len(BasicPrefix) + 1)
      notBase64(t) ==
        \E i \in 1..Len(t) :
          /\ ~Contains(BASE64, t[i])
          /\ \A j \in 1..i : t[j] # 61
      refused(h) ==
        \/ named(h) = {}
        \/ ~StartsWith(value(h), BasicPrefix)
        \/ notBase64(payload(h))
        \/ unwrap_or_default(base64_decode(payload(h))) # basic_auth
  IN  (op = "post" /\ basic_auth # <<>> /\ refused(req.headers)) =>
        /\ resp.status = 401
        /\ HasHeader(resp, "WWW-Authenticate")
        /\ Header(resp, "WWW-Authenticate") = Basic
        /\ store = pre

\* A POST of a valid URL whose Basic payload holds a character outside the
\* Base64 alphabet was answered 401.
RejectedSeen ==
  /\ op = "post"
  /\ basic_auth # <<>>
  /\ req.headers = AuthHeader(AuthorizationName, BasicPrefix \o Str(<<"Y", "T", "!", "i">>))
  /\ ExtractTable[req.body].some
  /\ resp.status = 401
  /\ HasHeader(resp, "WWW-Authenticate")
  /\ store = pre

\* C7 as stated: every POST whose body has no "url": key, or an unquoted
\* value, or a value that starts with neither http:// nor https://, is
\* answered 400 with the message "Missing or invalid URL in request body".
BadUrlAlways400 ==
  LET rest(b) == trim_start(From(b, Find(b, UrlKey) + Len(UrlKey)))
      noUrl(b) ==
        \/ Find(b, UrlKey) = 0
        \/ ~StartsWith(rest(b), <<Quote>>)
        \/ /\ ~StartsWith(Tail(rest(b)), HttpScheme)
           /\ ~StartsWith(Tail(rest(b)), HttpsScheme)
  IN  (op = "post" /\ noUrl(req.body)) =>
        (resp.status = 400 /\ resp.body = BadUrlMsg)

\* C7, amended: every POST that passes the credential gate (BASIC_AUTH is not
\* empty and the Authorization header matches it) and whose body has no
\* "url": key, or an unquoted value, or a value that starts with neither
\* http:// nor https://, is answered 400 with the plain-text message
\* "Missing or invalid URL in request body", and the Store is left unchanged.
BadUrlPastGate ==
  LET rest(b) == trim_start(From(b, Find(b, UrlKey) + Len(UrlKey)))
      noUrl(b) ==
        \/ Find(b, UrlKey) = 0
        \/ ~StartsWith(rest(b), <<Quote>>)
        \/ /\ ~StartsWith(Tail(rest(b)), HttpScheme)
           /\ ~StartsWith(Tail(rest(b)), HttpsScheme)
  IN  (/\ op = "post"
       /\ basic_auth # <<>>
       /\ check_basic_auth(req.headers, basic_auth)
       /\ noUrl(req.body)) =>
        /\ resp.status = 400
        /\ resp.body = BadUrlMsg
        /\ HasHeader(resp, "Content-Type")
        /\ Header(resp, "Content-Type") = TextPlain
        /\ DecimalValue(Header(resp, "Content-Length")) = Len(BadUrlMsg)
        /\ store = pre

\* A POST with accepted credentials whose "url": value has the scheme ftp
\* was answered 400.
BadUrlPastGateSeen ==
  /\ op = "post"
  /\ basic_auth # <<>>
  /\ check_basic_auth(req.headers, basic_auth)
  /\ Find(req.body, UrlKey) # 0
  /\ Find(req.body, Str(<<"f", "t", "p">>)) # 0
  /\ resp.status = 400
  /\ resp.body = BadUrlMsg

(***************************************************************************)
(* Properties of lookups and of parse errors                               *)
(***************************************************************************)

\* C8 as stated: for every GET whose path is not "/" and whose code part, the
\* path after its one leading "/", is empty, longer than 7 characters, holds
\* a character outside the Base62 alphabet (a further "/" is one) or is no
\* key of the Store, handle_get answers 303 with Location: /.
MalformedGetRedirects ==
  (op = "get" /\ req.path # Slash /\ StartsWith(req.path, Slash)) =>
    LET code == Tail(req.path)
    IN  (\/ code = <<>>
         \/ Len(code) > 7
         \/ \E i \in 1..Len(code) : ~Contains(BASE62, code[i])
         \/ code \notin DOMAIN store)
        => /\ resp.status = 303
           /\ HasHeader(resp, "Location")
           /\ Header(resp, "Location") = Slash

\* C9: handle_err answers 500 exactly when the error is an IoError and 400
\* for each of the six other kinds; the body is the description of the error
\* and Content-Length is the length of that body.
ErrMapping ==
  op = "err" =>
    /\ failure.kind \in ErrorKinds
    /\ resp.status = 500 <=> failure.kind = "IoError"
    /\ failure.kind # "IoError" => resp.status = 400
    /\ resp.body = Display(failure)
    /\ HasHeader(resp, "Content-Length")
    /\ DecimalValue(Header(resp, "Content-Length")) = Len(resp.body)

\* An IoError was answered 500 with its description, of more than 9 bytes.
ErrMappingSeen ==
  /\ op = "err"
  /\ failure.kind = "IoError"
  /\ resp.status = 500
  /\ resp.body = failure.inner
  /\ Len(resp.body) > 9

DeclaredLength(d) ==
  LET named == {i \in 2..Find(d, CRLF \o CRLF) :
                  /\ d[i - 1] = LF
                  /\ i + Len(ContentLengthName) <= Len(d)
                  /\ eq_ignore_ascii_case(SubSeq(d, i, i + Len(ContentLengthName) - 1),
                                          ContentLengthName)
                  /\ d[i + Len(ContentLengthName)] = 58}
      from == Min(named) + Len(ContentLengthName) + 1
      value == trim(SubSeq(d, from, Min({j \in from..Len(d) : d[j] = CR}) - 1))
  IN  IF named = {} THEN <<>>
      ELSE Suffix(value, {i \in 1..Len(value) : value[i] # 48 /\ value[i] # 43})

Overlong(d) ==
  /\ Len(d) > MAX_HEADER
  /\ ~\E p \in 1..(MAX_HEADER - 2) : d[p] = LF /\ d[p + 1] = CR /\ d[p + 2] = LF

IdempotentCreate ==
  (op = "post" /\ basic_auth # <<>> /\ AuthTable[req.headers, basic_auth]
     /\ ExtractTable[req.body].some) =>
    LET url == ExtractTable[req.body].val
        free == {a \in 0..MaxAttempt :
                   ~(shorten_url(url, a) \in DOMAIN pre /\ pre[shorten_url(url, a)] # url)}
        code == shorten_url(url, Min(free))
    IN  (free # {} /\ code \in DOMAIN pre) =>
          /\ resp.status = 200
          /\ resp.body = code
          /\ store = pre

\* A URL held under a salted code is posted again: same code, same Store.
IdempotentCreateSeen ==
  /\ op = "post"
  /\ resp.status = 200
  /\ store = pre
  /\ resp.body \in DOMAIN pre
  /\ pre[resp.body] = ExtractTable[req.body].val
  /\ resp.body # shorten_url(ExtractTable[req.body].val, 0)

\* C16: the Store is changed only by a POST that ends in 200.  Every GET
\* (200, 302 or 303), every POST that ends in 400, 401 or 500 and every
\* response to a parse error leaves the Store as it was.
OnlyPostMutates ==
  /\ [][store' # store => (op' = "post" /\ resp'.status = 200)]_vars
  /\ [](op = "get" => (store = pre /\ resp.status \in {200, 302, 303}))
  /\ [](op = "post" => (resp.status \in {200, 400, 401, 500}
                          /\ (resp.status # 200 => store = pre)))
  /\ [](op = "err" => store = pre)

\* A GET answered 200 from a Store of two entries, which it left alone.
OnlyPostMutatesSeen ==
  /\ op = "get"
  /\ resp.status = 200
  /\ Cardinality(DOMAIN store) >= 2
  /\ store = pre

\* C17: every handled request gets exactly one response.  handle_get,
\* handle_post and handle_err each write one response, never none and never
\* two; it is fully built (its Content-Length, when present, is the length
\* of its body) and its status is one of 200, 302, 303, 400, 401, 500.
OneResponse ==
  op \in {"get", "post", "err"} =>
    /\ Len(written) = 1
    /\ written[1] = resp
    /\ resp.status \in {200, 302, 303, 400, 401, 500}
    /\ \A i \in 1..Len(resp.headers) :
         resp.headers[i][1] = "Content-Length" =>
           resp.headers[i][2] = ToDecimal(Len(resp.body))

\* The path of handle_post with the early return: the 500 response of an
\* exhausted collision loop is the one response written.
OneResponseSeen ==
  /\ op = "post"
  /\ calls = MaxAttempt + 1
  /\ written = <<ServerError>>

\* C20: no URL is stored under two different codes, in every state reachable
\* from the empty Store, also when other URLs collide with its candidates.
Injective ==
  \A c1, c2 \in DOMAIN store : store[c1] = store[c2] => c1 = c2

\* A URL whose unsalted code belongs to another URL was posted twice: the
\* Store holds it once, under a salted code.
InjectiveSeen ==
  /\ op = "post"
  /\ resp.status = 200
  /\ store = pre
  /\ Cardinality(DOMAIN store) >= 3
  /\ \E c \in DOMAIN store :
       /\ store[c] # ExtractTable[req.body].val
       /\ c = shorten_url(ExtractTable[req.body].val, 0)
  /\ Cardinality({c \in DOMAIN store : store[c] = ExtractTable[req.body].val}) = 1

(***************************************************************************)
(* Properties of the functions called on their own                         *)
(***************************************************************************)

\* The number a sequence of Base62 digits denotes, most significant digit
\* first, as a u64 in limbs.
RECURSIVE Value62(_)
Value62(digits) ==
  IF digits = <<>> THEN <<0, 0, 0, 0>>
  ELSE LET n == Value62(SubSeq(digits, 1, Len(digits) - 1))
           d == (CHOOSE i \in 1..Len(BASE62) : BASE62[i] = digits[Len(digits)]) - 1
           a1 == n[1] * 62 + d
           a2 == n[2] * 62 + (a1 \div LimbBase)
           a3 == n[3] * 62 + (a2 \div LimbBase)
           a4 == n[4] * 62 + (a3 \div LimbBase)
       IN  <<a1 % LimbBase, a2 % LimbBase, a3 % LimbBase, a4 % LimbBase>>

\* C13: for every URL and every attempt number 0 to 10 the code produced by
\* shorten_url is non-empty, at most 7 characters long and made of Base62
\* characters only; a masked hash of 0 gives "0"; the rendering of the
\* masked hash is its Base62 numeral without a leading zero, and a rendering
\* longer than 7 digits is cut to its first 7 digits.
ShortCodes ==
  op = "shorten_url" =>
    LET hash == get_hash_prefix(Salted(req[1], req[2]))
        digits == to_base62(hash)
    IN  /\ result # <<>>
        /\ Len(result) <= 7
        /\ \A i \in 1..Len(result) : Contains(BASE62, result[i])
        /\ IsZero(hash) => result = Str(<<"0">>)
        /\ hash[4] = 0
        /\ Value62(digits) = hash
        /\ ~IsZero(hash) => digits[1] # BASE62[1]
        /\ Len(digits) > 7 => result = SubSeq(digits, 1, 7)
        /\ Len(digits) <= 7 => result = digits

\* A salted URL of the last attempt whose masked hash has more than 7
\* digits: the code is the first 7 of them.
ShortCodesSeen ==
  /\ op = "shorten_url"
  /\ req[2] = MaxAttempt
  /\ Len(to_base62(get_hash_prefix(Salted(req[1], req[2])))) > 7
  /\ Len(result) = 7

\* C18: check_basic_auth returns true if and only if the first header named
\* Authorization (without regard to case) has a value that starts with
\* "Basic " and whose remainder, read as Base64 up to the first "=" with
\* every character before it in A-Za-z0-9+/, decodes to a non-empty text
\* equal to the expected secret.  So an empty expected secret and an empty
\* decoded text never match.
GateDecides ==
  op = "check_basic_auth" =>
    LET h == req[1]
        e == req[2]
        named == {i \in 1..Len(h) : eq_ignore_ascii_case(h[i][1], AuthorizationName)}
        value == h[Min(named)][2]
        rest == SubSeq(value, 7, Len(value))
        stop == Min({j \in 1..(Len(rest) + 1) : j > Len(rest) \/ rest[j] = 61})
        six(k) ==
          LET c == rest[k]
          IN  IF c >= 65 /\ c <= 90 THEN c - 65
              ELSE IF c >= 97 /\ c <= 122 THEN c - 71
              ELSE IF c >= 48 /\ c <= 57 THEN c + 4
              ELSE IF c = 43 THEN 62
              ELSE IF c = 47 THEN 63
              ELSE 64
        bit(m) == (six((m \div 6) + 1) \div (2 ^ (5 - (m % 6)))) % 2
        byte(j) ==
            128 * bit(8 * j - 8) + 64 * bit(8 * j - 7) + 32 * bit(8 * j - 6)
          + 16 * bit(8 * j - 5) + 8 * bit(8 * j - 4) + 4 * bit(8 * j - 3)
          + 2 * bit(8 * j - 2) + bit(8 * j - 1)
        decoded == [j \in 1..((6 * (stop - 1)) \div 8) |-> byte(j)]
        matches ==
          /\ named # {}
          /\ Len(value) >= 6
          /\ SubSeq(value, 1, 6) = Str(<<"B", "a", "s", "i", "c", " ">>)
          /\ \A k \in 1..(stop - 1) : six(k) < 64
          /\ decoded # <<>>
          /\ Utf8Valid(decoded)
          /\ decoded = e
    IN  /\ result = matches
        /\ e = <<>> => result = FALSE

\* The gate accepted a header whose name is in lower case and, for another
\* expected secret, refused it.
GateDecidesSeen ==
  /\ op = "check_basic_auth"
  /\ result = TRUE
  /\ req[1][1][1] # AuthorizationName
  /\ req[2] = Secret

\* C19: extract_url returns a URL if and only if the body contains "url":
\* and, at its first occurrence, the text after it with leading whitespace
\* skipped starts with a double quote, a closing double quote follows, and
\* the text between the two quotes starts with http:// or https://; the URL
\* returned is exactly the text between the quotes; otherwise the result is
\* None.
ExtractDecides ==
  op = "extract_url" =>
    LET b == req[1]
        keys == {i \in 1..Len(b) :
                   /\ i + 5 <= Len(b)
                   /\ b[i] = 34 /\ b[i + 1] = 117 /\ b[i + 2] = 114
                   /\ b[i + 3] = 108 /\ b[i + 4] = 34 /\ b[i + 5] = 58}
        after == Min(keys) + 6
        texts == {j \in after..Len(b) : ~IsWhitespace(b[j])}
        open == Min(texts)
        closes == {j \in (open + 1)..Len(b) : b[j] = 34}
        between == SubSeq(b, open + 1, Min(closes) - 1)
        found ==
          /\ keys # {}
          /\ texts # {}
          /\ b[open] = 34
          /\ closes # {}
          /\ \/ StartsWith(between, Str(<<"h", "t", "t", "p", ":", "/", "/">>))
             \/ StartsWith(between, Str(<<"h", "t", "t", "p", "s", ":", "/", "/">>))
    IN  IF found THEN result = Some(between) ELSE result = None

\* A body with two "url": keys, the first with a quoted http URL: the URL
\* was returned, without the quotes.
ExtractDecidesSeen ==
  /\ op = "extract_url"
  /\ result.some
  /\ Find(From(req[1], Find(req[1], UrlKey) + 1), UrlKey) # 0
  /\ result.val = HttpScheme \o Str(<<"a">>)

====
